---- MODULE Spec2Model ----
(***************************************************************************)
(* The LSP framing proxy of plugins/*-lsp/lsp-proxy.mjs: the frame parser  *)
(* (createMessageParser), the URI normalizer, the interception policy of   *)
(* the csharp variant and the process lifecycle handlers.                  *)
(*                                                                         *)
(* A byte is a one-character string; the bytes above 0x7F that the model   *)
(* uses are named xEF, xBF, xBD (the UTF-8 encoding of U+FFFD) and xFF (a  *)
(* byte no UTF-8 text contains).  A character of a decoded string is a     *)
(* one-character string too, U+FFFD being REPL.                            *)
(***************************************************************************)
EXTENDS Integers, Sequences, FiniteSets, TLC

VARIABLES
    variant,      \* "csharp" (part_000) or "typescript" (lsp-proxy.mjs)
    debug,        \* csharp: const debug = !!env.DEBUG
    clientSent,   \* the segments the client writes to the proxy's stdin
    serverSent,   \* the segments the child writes to its stdout
    clientIn,     \* bytes of clientSent not yet delivered as a 'data' event
    serverIn,     \* bytes of serverSent not yet delivered as a 'data' event
    clientBuf,    \* parseFromClient's buffer
    serverBuf,    \* parseFromServer's buffer
    toServer,     \* the buffers passed to child.stdin.write, in order
    toClient,     \* the buffers passed to stdout.write, in order
    logFile,      \* the records passed to logStream.write, in order
    logState,     \* "none" (logStream = null), "open", "ending", "closed"
    stdinState,   \* the proxy's stdin: "open", "ended", "errored"
    childStdin,   \* child.stdin: "open" or "ended" (child.stdin.end() called)
    child,        \* "running", "spawn_failed", "exited"
    childExit,    \* the (code, signal) of the child's 'exit' event
    childSignals, \* the signals child.kill delivered to the child, in order
    sigPending,   \* signals raised at the proxy and not yet handled
    sigBudget,    \* how many more signals the environment may send
    pendingDone,  \* TRUE while logStream.end(done) has not called done yet
    resignal,     \* the signal of process.kill(process.pid, signal), or NoSignal
    proxy,        \* "alive" or "terminated"
    exitStatus,   \* how the proxy terminated: [code, signal]
    stdoutState,  \* the proxy's stdout: "open" or "errored"
    hazards,      \* writes after end: subset of {"child.stdin", "logStream"}
    arg,          \* the value a function of the module is called on by itself
    results       \* what the successive calls returned, in order

vars == << variant, debug, clientSent, serverSent, clientIn, serverIn,
           clientBuf, serverBuf, toServer, toClient, logFile, logState,
           stdinState, childStdin, child, childExit, childSignals,
           sigPending, sigBudget, pendingDone, resignal, proxy, exitStatus,
           stdoutState, hazards, arg, results >>

\* A signal argument that is null.
NoSignal == "null"

\* An exit code that is null.
NoCode == -1

-----------------------------------------------------------------------------
(* Bytes and characters *)

CR == "\r"
LF == "\n"
TAB == "\t"
BSL == "\\"
QUOTE == "\""
xEF == "xEF"
xBF == "xBF"
xBD == "xBD"
xFF == "xFF"
DEL == "x7F"
REPL == "U+FFFD"

HighBytes == {xEF, xBF, xBD, xFF}

Digits == <<"0", "1", "2", "3", "4", "5", "6", "7", "8", "9">>

IsDigit(c) == \E d \in 1..10 : Digits[d] = c

DigitValue(c) == (CHOOSE d \in 1..10 : Digits[d] = c) - 1

\* The regular expression's \s on a text decoded as ascii.
IsSpace(c) == c \in {" ", TAB, CR, LF}

RECURSIVE Flatten(_)
Flatten(ss) == IF ss = <<>> THEN <<>> ELSE Head(ss) \o Flatten(Tail(ss))

Min(S) == CHOOSE m \in S : \A n \in S : m <= n

\* String.prototype.startsWith
StartsWith(s, p) == Len(s) >= Len(p) /\ SubSeq(s, 1, Len(p)) = p

\* Number -> decimal digits, as the template literal `${n}` and
\* JSON.stringify write a non-negative integer.
RECURSIVE Decimal(_)
Decimal(n) ==
    IF n < 10 THEN << Digits[n + 1] >>
    ELSE Append(Decimal(n \div 10), Digits[(n % 10) + 1])

\* parseInt(digits, 10) on a run of decimal digits.
RECURSIVE ParseInt(_)
ParseInt(ds) ==
    IF ds = <<>> THEN 0
    ELSE 10 * ParseInt(SubSeq(ds, 1, Len(ds) - 1)) + DigitValue(ds[Len(ds)])

\* Buffer.prototype.toString("ascii"): the high bit of every byte is unset.
AsciiChar(b) ==
    CASE b = xEF -> "o"
      [] b = xBF -> "?"
      [] b = xBD -> "="
      [] b = xFF -> DEL
      [] OTHER -> b

AsciiDecode(bytes) == [i \in 1..Len(bytes) |-> AsciiChar(bytes[i])]

\* Buffer.prototype.toString("utf-8"): a well-formed sequence decodes to its
\* character, every maximal ill-formed part to one U+FFFD.  EF BF BD is the
\* one multi-byte sequence of the model's alphabet; EF BF is a truncated
\* three-byte sequence, every other high byte is ill-formed on its own.
RECURSIVE Utf8Decode(_)
Utf8Decode(bytes) ==
    IF bytes = <<>> THEN <<>>
    ELSE LET b == Head(bytes) IN
         IF b \notin HighBytes THEN << b >> \o Utf8Decode(Tail(bytes))
         ELSE IF b = xEF /\ Len(bytes) >= 2 /\ bytes[2] = xBF
              THEN IF Len(bytes) >= 3 /\ bytes[3] = xBD
                   THEN << REPL >> \o Utf8Decode(SubSeq(bytes, 4, Len(bytes)))
                   ELSE << REPL >> \o Utf8Decode(SubSeq(bytes, 3, Len(bytes)))
              ELSE << REPL >> \o Utf8Decode(Tail(bytes))

\* Buffer.from(string, "utf-8")
RECURSIVE Utf8Encode(_)
Utf8Encode(chars) ==
    IF chars = <<>> THEN <<>>
    ELSE (IF Head(chars) = REPL THEN << xEF, xBF, xBD >> ELSE << Head(chars) >>)
         \o Utf8Encode(Tail(chars))

-----------------------------------------------------------------------------
(* JSON values: null, booleans, non-negative integers (written with or      *)
(* without an exponent e<digits>), strings, arrays and objects (the members *)
(* in insertion order, as Object.entries yields them).  A number too large  *)
(* for a double is the number Infinity.                                     *)

JNull == [t |-> "null"]
JBool(b) == [t |-> "bool", b |-> b]
JNum(n) == [t |-> "num", n |-> n]
JInfinity == [t |-> "inf"]
JStr(s) == [t |-> "str", s |-> s]
JArr(a) == [t |-> "arr", a |-> a]
JObj(o) == [t |-> "obj", o |-> o]
Member(k, v) == [k |-> k, v |-> v]

ParseFail == [ok |-> FALSE, v |-> JNull, i |-> 0]
ParseOk(v, i) == [ok |-> TRUE, v |-> v, i |-> i]

\* obj[k] = v while parsing: a repeated key keeps its place and takes the
\* later value.
SetMember(o, k, v) ==
    IF \E j \in 1..Len(o) : o[j].k = k
    THEN [j \in 1..Len(o) |-> IF o[j].k = k THEN Member(k, v) ELSE o[j]]
    ELSE Append(o, Member(k, v))

RECURSIVE SkipWs(_, _)
SkipWs(s, i) == IF i <= Len(s) /\ IsSpace(s[i]) THEN SkipWs(s, i + 1) ELSE i

HasLiteral(s, i, lit) ==
    i + Len(lit) - 1 <= Len(s) /\ SubSeq(s, i, i + Len(lit) - 1) = lit

\* The digits of s from i on.
RECURSIVE DigitRun(_, _)
DigitRun(s, i) ==
    IF i <= Len(s) /\ IsDigit(s[i]) THEN << s[i] >> \o DigitRun(s, i + 1)
    ELSE <<>>

\* The largest power of ten a double holds is 10^308.
MaxDoubleExponent == 308

\* The number the literal <ds>e<es> denotes, ds without a leading zero:
\* Infinity from 2 * 10^308 on, and so above 10^309.  (The model holds no
\* literal between 10^10 and 2 * 10^308.)
Scaled(ds, es) ==
    IF ds = << "0" >> THEN JNum(0)
    ELSE IF \/ Len(ds) - 1 + ParseInt(es) > MaxDoubleExponent
            \/ Len(ds) - 1 + ParseInt(es) = MaxDoubleExponent /\ ds[1] # "1"
         THEN JInfinity
    ELSE JNum(ParseInt(ds) * 10 ^ ParseInt(es))

\* A number from i on, whose integer part is ds: an exponent follows or not.
ParseNumber(s, i, ds) ==
    LET e == i + Len(ds)
        es == DigitRun(s, e + 1)
    IN  IF e <= Len(s) /\ s[e] \in {"e", "E"}
        THEN IF es = <<>> THEN ParseFail
             ELSE ParseOk(Scaled(ds, es), e + 1 + Len(es))
        ELSE ParseOk(JNum(ParseInt(ds)), e)

\* A JSON string body from i (after the opening quote) on: the characters up
\* to the closing quote, with the escapes \" \\ \/ \n \r \t resolved.  A raw
\* control character ends the parse.
RECURSIVE ParseChars(_, _, _)
ParseChars(s, i, acc) ==
    IF i > Len(s) THEN ParseFail
    ELSE IF s[i] = QUOTE THEN ParseOk(JStr(acc), i + 1)
    ELSE IF s[i] \in {CR, LF, TAB} THEN ParseFail
    ELSE IF s[i] = BSL
         THEN IF i + 1 > Len(s) THEN ParseFail
              ELSE LET e == s[i + 1] IN
                   IF e \in {QUOTE, BSL, "/"} THEN ParseChars(s, i + 2, Append(acc, e))
                   ELSE IF e = "n" THEN ParseChars(s, i + 2, Append(acc, LF))
                   ELSE IF e = "r" THEN ParseChars(s, i + 2, Append(acc, CR))
                   ELSE IF e = "t" THEN ParseChars(s, i + 2, Append(acc, TAB))
                   ELSE ParseFail
    ELSE ParseChars(s, i + 1, Append(acc, s[i]))

RECURSIVE ParseValue(_, _)
RECURSIVE ParseElements(_, _, _)
RECURSIVE ParseMembers(_, _, _)

ParseValue(s, i0) ==
    LET i == SkipWs(s, i0) IN
    IF i > Len(s) THEN ParseFail
    ELSE IF HasLiteral(s, i, <<"n", "u", "l", "l">>) THEN ParseOk(JNull, i + 4)
    ELSE IF HasLiteral(s, i, <<"t", "r", "u", "e">>) THEN ParseOk(JBool(TRUE), i + 4)
    ELSE IF HasLiteral(s, i, <<"f", "a", "l", "s", "e">>) THEN ParseOk(JBool(FALSE), i + 5)
    ELSE IF IsDigit(s[i])
         THEN ParseNumber(s, i, IF s[i] = "0" THEN << "0" >> ELSE DigitRun(s, i))
    ELSE IF s[i] = QUOTE THEN ParseChars(s, i + 1, <<>>)
    ELSE IF s[i] = "["
         THEN LET j == SkipWs(s, i + 1) IN
              IF j <= Len(s) /\ s[j] = "]" THEN ParseOk(JArr(<<>>), j + 1)
              ELSE ParseElements(s, i + 1, <<>>)
    ELSE IF s[i] = "{"
         THEN LET j == SkipWs(s, i + 1) IN
              IF j <= Len(s) /\ s[j] = "}" THEN ParseOk(JObj(<<>>), j + 1)
              ELSE ParseMembers(s, i + 1, <<>>)
    ELSE ParseFail

\* value (, value)* ]
ParseElements(s, i, acc) ==
    LET r == ParseValue(s, i) IN
    IF ~r.ok THEN ParseFail
    ELSE LET j == SkipWs(s, r.i) IN
         IF j > Len(s) THEN ParseFail
         ELSE IF s[j] = "]" THEN ParseOk(JArr(Append(acc, r.v)), j + 1)
         ELSE IF s[j] = "," THEN ParseElements(s, j + 1, Append(acc, r.v))
         ELSE ParseFail

\* "key" : value (, "key" : value)* }
ParseMembers(s, i0, acc) ==
    LET i == SkipWs(s, i0) IN
    IF i > Len(s) \/ s[i] # QUOTE THEN ParseFail
    ELSE LET k == ParseChars(s, i + 1, <<>>) IN
         IF ~k.ok THEN ParseFail
         ELSE LET c == SkipWs(s, k.i) IN
              IF c > Len(s) \/ s[c] # ":" THEN ParseFail
              ELSE LET r == ParseValue(s, c + 1) IN
                   IF ~r.ok THEN ParseFail
                   ELSE LET j == SkipWs(s, r.i)
                            o == SetMember(acc, k.v.s, r.v)
                        IN  IF j > Len(s) THEN ParseFail
                            ELSE IF s[j] = "}" THEN ParseOk(JObj(o), j + 1)
                            ELSE IF s[j] = "," THEN ParseMembers(s, j + 1, o)
                            ELSE ParseFail

\* JSON.parse(text): [ok |-> FALSE] stands for the SyntaxError it throws.
JsonParse(text) ==
    LET r == ParseValue(text, 1) IN
    IF r.ok /\ SkipWs(text, r.i) > Len(text) THEN r ELSE ParseFail

\* A string as JSON.stringify quotes it.
RECURSIVE QuoteChars(_)
QuoteChars(s) ==
    IF s = <<>> THEN <<>>
    ELSE LET c == Head(s) IN
         (CASE c = QUOTE -> << BSL, QUOTE >>
            [] c = BSL -> << BSL, BSL >>
            [] c = LF -> << BSL, "n" >>
            [] c = CR -> << BSL, "r" >>
            [] c = TAB -> << BSL, "t" >>
            [] OTHER -> << c >>) \o QuoteChars(Tail(s))

Quoted(s) == << QUOTE >> \o QuoteChars(s) \o << QUOTE >>

RECURSIVE JsonStringify(_)
RECURSIVE StringifyElements(_)
RECURSIVE StringifyMembers(_)

\* JSON.stringify(value), as characters.
JsonStringify(v) ==
    CASE v.t = "null" -> <<"n", "u", "l", "l">>
      [] v.t = "bool" -> IF v.b THEN <<"t", "r", "u", "e">>
                         ELSE <<"f", "a", "l", "s", "e">>
      [] v.t = "num" -> Decimal(v.n)
      [] v.t = "inf" -> <<"n", "u", "l", "l">>
      [] v.t = "str" -> Quoted(v.s)
      [] v.t = "arr" -> << "[" >> \o StringifyElements(v.a) \o << "]" >>
      [] v.t = "obj" -> << "{" >> \o StringifyMembers(v.o) \o << "}" >>

StringifyElements(a) ==
    IF a = <<>> THEN <<>>
    ELSE JsonStringify(Head(a))
         \o (IF Len(a) > 1 THEN << "," >> ELSE <<>>)
         \o StringifyElements(Tail(a))

StringifyMembers(o) ==
    IF o = <<>> THEN <<>>
    ELSE Quoted(Head(o).k) \o << ":" >> \o JsonStringify(Head(o).v)
         \o (IF Len(o) > 1 THEN << "," >> ELSE <<>>)
         \o StringifyMembers(Tail(o))

\* msg[key] of a parsed value that is not null: the member's value, or NoSignal
\* (undefined) when msg is no object or has no such member.
HasMember(msg, key) == msg.t = "obj" /\ \E j \in 1..Len(msg.o) : msg.o[j].k = key

GetMember(msg, key) ==
    msg.o[CHOOSE j \in 1..Len(msg.o) : msg.o[j].k = key].v

-----------------------------------------------------------------------------
(* URI normalization (client->server only) *)

FilePrefix == <<"f", "i", "l", "e", ":", "/", "/">>

ProtoKey == <<"_", "_", "p", "r", "o", "t", "o", "_", "_">>

\* path.replace(/\/$/, ""): one trailing slash only.
StripOneTrailingSlash(path) ==
    IF path # <<>> /\ path[Len(path)] = "/"
    THEN SubSeq(path, 1, Len(path) - 1)
    ELSE path

\* path.replace(/\/+$/, "")
RECURSIVE StripTrailingSlashes(_)
StripTrailingSlashes(path) ==
    IF path # <<>> /\ path[Len(path)] = "/"
    THEN StripTrailingSlashes(SubSeq(path, 1, Len(path) - 1))
    ELSE path

\* normalizeFileUri stripping "file://" only, never a third slash.
normalizeFileUriTwoSlashes(uri) ==
    IF ~StartsWith(uri, FilePrefix) THEN uri
    ELSE LET raw == SubSeq(uri, 8, Len(uri))
             slashed == [i \in 1..Len(raw) |-> IF raw[i] = BSL THEN "/" ELSE raw[i]]
             path == IF Len(slashed) > 1 THEN StripTrailingSlashes(slashed)
                     ELSE slashed
         IN  FilePrefix \o << "/" >> \o path

normalizeFileUri(uri) ==
    IF ~StartsWith(uri, FilePrefix) THEN uri
    ELSE LET \* uri.replace(/^file:\/{2,3}/, "")
             raw == IF Len(uri) >= 8 /\ uri[8] = "/"
                    THEN SubSeq(uri, 9, Len(uri))
                    ELSE SubSeq(uri, 8, Len(uri))
             \* path.replace(/\\/g, "/")
             slashed == [i \in 1..Len(raw) |-> IF raw[i] = BSL THEN "/" ELSE raw[i]]
             path == IF Len(slashed) > 1 THEN StripTrailingSlashes(slashed)
                     ELSE slashed
         IN  FilePrefix \o << "/" >> \o path

RECURSIVE normalizeUris(_)
RECURSIVE NormalizeElements(_)
RECURSIVE NormalizeEntries(_)

normalizeUris(obj) ==
    CASE obj.t = "str" -> IF StartsWith(obj.s, FilePrefix)
                          THEN JStr(normalizeFileUri(obj.s)) ELSE obj
      [] obj.t = "arr" -> JArr(NormalizeElements(obj.a))
      [] obj.t = "obj" -> JObj(NormalizeEntries(obj.o))
      [] OTHER -> obj

NormalizeElements(a) ==
    IF a = <<>> THEN <<>>
    ELSE << normalizeUris(Head(a)) >> \o NormalizeElements(Tail(a))

\* out[k] = normalizeUris(v) for each entry; the assignment out["__proto__"]
\* sets out's prototype and adds no member.
NormalizeEntries(o) ==
    IF o = <<>> THEN <<>>
    ELSE (IF Head(o).k = ProtoKey THEN <<>>
          ELSE << Member(Head(o).k, normalizeUris(Head(o).v)) >>)
         \o NormalizeEntries(Tail(o))

-----------------------------------------------------------------------------
(* LSP message parser *)

ClientToServer == "client->server"
ServerToClient == "server->client"
ProxyToServer == "proxy->server"

\* What one call of the parser does, in order: forward(data), a log(...)
\* call, or sendToServer's child.stdin.write(data).
Forward(data) == [op |-> "forward", direction |-> "", data |-> data]
Log(direction, message) ==
    [op |-> "log", direction |-> direction, data |-> JsonStringify(message)]
Send(data) == [op |-> "send", direction |-> "", data |-> data]

Separator == << CR, LF, CR, LF >>

\* buffer.indexOf("\r\n\r\n"): the 0-based offset of the first separator, -1
\* when there is none.
IndexOfSeparator(buffer) ==
    LET at == {i \in 1..(Len(buffer) - 3) : SubSeq(buffer, i, i + 3) = Separator}
    IN  IF at = {} THEN -1 ELSE Min(at) - 1

\* Buffer.prototype.subarray(start, end), offsets 0-based, end exclusive.
subarray(buffer, start, end) == SubSeq(buffer, start + 1, end)

ContentLengthName ==
    <<"c", "o", "n", "t", "e", "n", "t", "-", "l", "e", "n", "g", "t", "h", ":">>

\* The /i flag on the letters of the pattern.
Lower(c) ==
    CASE c = "C" -> "c" [] c = "O" -> "o" [] c = "N" -> "n" [] c = "T" -> "t"
      [] c = "E" -> "e" [] c = "L" -> "l" [] c = "G" -> "g" [] c = "H" -> "h"
      [] OTHER -> c

\* /Content-Length:\s*(\d+)/i matches headerText at offset i (1-based).
MatchesAt(headerText, i) ==
    /\ i + Len(ContentLengthName) - 1 <= Len(headerText)
    /\ \A j \in 1..Len(ContentLengthName) :
          Lower(headerText[i + j - 1]) = ContentLengthName[j]
    /\ LET d == SkipWs(headerText, i + Len(ContentLengthName))
       IN  d <= Len(headerText) /\ IsDigit(headerText[d])

\* headerText.match(/Content-Length:\s*(\d+)/i): the leftmost match's group 1.
HeaderMatch(headerText) ==
    LET at == {i \in 1..Len(headerText) : MatchesAt(headerText, i)} IN
    IF at = {} THEN [found |-> FALSE, digits |-> <<>>]
    ELSE [found |-> TRUE,
          digits |-> DigitRun(headerText,
                              SkipWs(headerText, Min(at) + Len(ContentLengthName)))]

\* `Content-Length: ${n}\r\n\r\n`
FrameHeader(n) ==
    <<"C", "o", "n", "t", "e", "n", "t", "-", "L", "e", "n", "g", "t", "h", ":", " ">>
    \o Decimal(n) \o Separator

\* Buffer.concat([frame, body]): a body under a header computed from it.
Framed(body) == FrameHeader(Len(body)) \o body

\* EncodeFrame taking the string's length in characters for the body's
\* length in bytes.
EncodeFrameCountsChars(message) ==
    FrameHeader(Len(JsonStringify(message))) \o Utf8Encode(JsonStringify(message))

\* A message serialized anew, with its new Content-Length.
EncodeFrame(message) == Framed(Utf8Encode(JsonStringify(message)))

INTERCEPTED_METHODS ==
    { <<"c", "l", "i", "e", "n", "t", "/", "r", "e", "g", "i", "s", "t", "e", "r",
        "C", "a", "p", "a", "b", "i", "l", "i", "t", "y">>,
      <<"w", "i", "n", "d", "o", "w", "/", "w", "o", "r", "k", "D", "o", "n", "e",
        "P", "r", "o", "g", "r", "e", "s", "s", "/", "c", "r", "e", "a", "t", "e">>,
      <<"w", "i", "n", "d", "o", "w", "/", "w", "o", "r", "k", "D", "o", "n", "e",
        "P", "r", "o", "g", "r", "e", "s", "s", "/", "c", "a", "n", "c", "e", "l">> }

KeyId == <<"i", "d">>
KeyMethod == <<"m", "e", "t", "h", "o", "d">>
KeyRaw == <<"_", "r", "a", "w">>

\* msg.id !== undefined && INTERCEPTED_METHODS.has(msg.method), of a msg that
\* is not null.
Intercepts(msg) ==
    /\ HasMember(msg, KeyId)
    /\ HasMember(msg, KeyMethod)
    /\ GetMember(msg, KeyMethod).t = "str"
    /\ GetMember(msg, KeyMethod).s \in INTERCEPTED_METHODS

\* sendToServer(message)
sendToServer(message) == Send(EncodeFrame(message))

\* The body of intercept(msg) when it returns true.
InterceptEffects(msg) ==
    << Log(ProxyToServer,
           JObj(<< Member(KeyId, GetMember(msg, KeyId)),
                   Member(<<"i", "n", "t", "e", "r", "c", "e", "p", "t", "e", "d">>,
                          GetMember(msg, KeyMethod)) >>)),
       sendToServer(JObj(<< Member(<<"j", "s", "o", "n", "r", "p", "c">>,
                                   JStr(<<"2", ".", "0">>)),
                            Member(KeyId, GetMember(msg, KeyId)),
                            Member(<<"r", "e", "s", "u", "l", "t">>, JNull) >>)) >>

\* The catch block: log the body as text, forward the frame as received.
RawFallback(direction, raw, body) ==
    << Log(direction, JObj(<< Member(KeyRaw, JStr(Utf8Decode(body))) >>)),
       Forward(raw) >>

\* ResolveParsed without the `continue` of the intercepting branch.
ResolveParsedFallsThrough(direction, intercept, raw, body, parsed) ==
    << Log(direction, parsed) >>
    \o (IF intercept /\ parsed.t = "null" THEN RawFallback(direction, raw, body)
        ELSE IF intercept /\ Intercepts(parsed)
             THEN InterceptEffects(parsed) \o << Forward(EncodeFrame(parsed)) >>
        ELSE << Forward(EncodeFrame(parsed)) >>)

\* The try block after JSON.parse and transform succeeded: log, then the
\* intercept (intercept(null) throws, and the catch block runs after the
\* message was logged), then the forward of the message serialized anew.
ResolveParsed(direction, intercept, raw, body, parsed) ==
    << Log(direction, parsed) >>
    \o (IF intercept /\ parsed.t = "null" THEN RawFallback(direction, raw, body)
        ELSE IF intercept /\ Intercepts(parsed) THEN InterceptEffects(parsed)
        ELSE << Forward(EncodeFrame(parsed)) >>)

\* The try/catch on r, the outcome of JSON.parse(body.toString("utf-8")).
ResolveBody(direction, transform, intercept, raw, body, r) ==
    IF ~r.ok THEN RawFallback(direction, raw, body)
    ELSE ResolveParsed(direction, intercept, raw, body,
                       IF transform THEN normalizeUris(r.v) ELSE r.v)

\* One complete frame: raw is buffer[0, messageEnd), body is
\* buffer[bodyStart, messageEnd).
ResolveFrame(direction, transform, intercept, raw, body) ==
    ResolveBody(direction, transform, intercept, raw, body,
                JsonParse(Utf8Decode(body)))

RECURSIVE ParseLoop(_, _, _, _, _)

\* ParseBody returning after one frame instead of looping.
ParseBodyOnce(direction, transform, intercept, buffer, effects, bodyStart, messageEnd) ==
    IF Len(buffer) < messageEnd
    THEN [buffer |-> buffer, effects |-> effects]
    ELSE [buffer |-> subarray(buffer, messageEnd, Len(buffer)),
          effects |-> effects \o ResolveFrame(direction, transform, intercept,
                                              subarray(buffer, 0, messageEnd),
                                              subarray(buffer, bodyStart, messageEnd))]

\* The loop body from `const body` on: the frame ends at messageEnd.
ParseBody(direction, transform, intercept, buffer, effects, bodyStart, messageEnd) ==
    IF Len(buffer) < messageEnd
    THEN [buffer |-> buffer, effects |-> effects]
    ELSE ParseLoop(direction, transform, intercept,
                   subarray(buffer, messageEnd, Len(buffer)),
                   effects \o ResolveFrame(direction, transform, intercept,
                                           subarray(buffer, 0, messageEnd),
                                           subarray(buffer, bodyStart, messageEnd)))

\* ParseHeader skipping a malformed header block without forwarding it.
ParseHeaderDropsMalformed(direction, transform, intercept, buffer, effects, sep, match) ==
    IF ~match.found
    THEN ParseLoop(direction, transform, intercept,
                   subarray(buffer, sep + 4, Len(buffer)), effects)
    ELSE ParseBody(direction, transform, intercept, buffer, effects,
                   sep + 4, sep + 4 + ParseInt(match.digits))

\* The loop body from the header's match on.
ParseHeader(direction, transform, intercept, buffer, effects, sep, match) ==
    IF ~match.found
    THEN ParseLoop(direction, transform, intercept,
                   subarray(buffer, sep + 4, Len(buffer)),
                   Append(effects, Forward(subarray(buffer, 0, sep + 4))))
    ELSE ParseBody(direction, transform, intercept, buffer, effects,
                   sep + 4, sep + 4 + ParseInt(match.digits))

\* The loop body from the separator's offset on.
ParseSeparator(direction, transform, intercept, buffer, effects, sep) ==
    IF sep = -1 THEN [buffer |-> buffer, effects |-> effects]
    ELSE ParseHeader(direction, transform, intercept, buffer, effects, sep,
                     HeaderMatch(AsciiDecode(subarray(buffer, 0, sep))))

\* The while (true) loop of the parser on its buffer.
ParseLoop(direction, transform, intercept, buffer, effects) ==
    ParseSeparator(direction, transform, intercept, buffer, effects,
                   IndexOfSeparator(buffer))

\* createMessageParser forgetting the bytes buffered by earlier chunks.
createMessageParserForgets(direction, transform, intercept, buffer, chunk) ==
    ParseLoop(direction, transform, intercept, chunk, <<>>)

\* The closure createMessageParser returns, called on a chunk.
createMessageParser(direction, transform, intercept, buffer, chunk) ==
    ParseLoop(direction, transform, intercept, buffer \o chunk, <<>>)

-----------------------------------------------------------------------------
(* Traffic *)

MaxFrames == 2
MaxSignals == 1
MaxExitCode == 2
ReadSize == 48

\* A frame as an LSP peer writes it.
Wire(body) == Framed(body)

BodyEmpty == <<"{", "}">>
BodySpaced == <<"[", "1", ",", " ", "2", "]">>
BodyUri ==
    <<"{", QUOTE, "u", QUOTE, ":", QUOTE, "f", "i", "l", "e", ":", "/", "/", "C", ":",
      BSL, BSL, "a", BSL, BSL, QUOTE, "}">>
BodyBadJson == <<"{", "x">>
BodyBadUtf8 == << QUOTE, xFF, QUOTE >>
BodyNull == <<"n", "u", "l", "l">>
BodyResponse == <<"{", QUOTE, "i", "d", QUOTE, ":", "2", "}">>
BodyRegister ==
    <<"{", QUOTE, "i", "d", QUOTE, ":", "1", ",", QUOTE, "m", "e", "t", "h", "o", "d",
      QUOTE, ":", QUOTE, "c", "l", "i", "e", "n", "t", "/", "r", "e", "g", "i", "s", "t",
      "e", "r", "C", "a", "p", "a", "b", "i", "l", "i", "t", "y", QUOTE, "}">>

\* A header block without Content-Length, with its separator.
Malformed == << "X" >> \o Separator

\* A frame whose header is written in lower case, without the space.
LowerFrame ==
    <<"c", "o", "n", "t", "e", "n", "t", "-", "l", "e", "n", "g", "t", "h", ":", "2">>
    \o Separator \o BodyEmpty

\* The start of a frame whose writer stopped inside the body.
Truncated == FrameHeader(2) \o << "{" >>

ClientScript ==
    << Wire(BodyEmpty), Malformed, Wire(BodyUri), Wire(BodyBadJson), LowerFrame,
       Wire(BodyBadUtf8), Wire(BodySpaced), Truncated >>

ServerScript ==
    << Wire(BodyRegister), Wire(BodyResponse), Wire(BodyNull), Malformed,
       Wire(BodyBadJson), Wire(BodyRegister), Wire(BodyUri) >>

\* The runs of at most k consecutive segments of a script.
Windows(script, k) ==
    { SubSeq(script, w[1], w[2]) :
        w \in { v \in (1..Len(script)) \X (0..Len(script)) :
                  v[2] >= v[1] - 1 /\ v[2] - v[1] + 1 <= k } }

\* What the client and the child write in a session of the whole proxy.
ClientSessions == { << Wire(BodyEmpty), Truncated >> }
ServerSessions == { << Wire(BodyRegister) >> }

ExitCodes == 0..MaxExitCode
HandledSignals == {"SIGTERM", "SIGINT"}
Signals == HandledSignals \cup {"SIGKILL"}

-----------------------------------------------------------------------------
(* The proxy *)

\* logStream of the variant: typescript always logs, csharp when debug.
Logging == variant = "typescript" \/ debug

Datas(effects, ops) ==
    LET es == SelectSeq(effects, LAMBDA e : e.op \in ops)
    IN  [i \in 1..Len(es) |-> es[i].data]

LogRecords(effects) ==
    LET es == SelectSeq(effects, LAMBDA e : e.op = "log")
    IN  [i \in 1..Len(es) |-> [direction |-> es[i].direction, message |-> es[i].data]]

\* log(direction, message): nothing without a logStream; a write on a stream
\* that was ended writes nothing and raises a write-after-end error.
LogWrites(effects) ==
    /\ logFile' = IF logState = "open" THEN logFile \o LogRecords(effects) ELSE logFile
    /\ logState' = logState

\* The streams written after their end; stdinOps are the effects that
\* write to child.stdin.
Hazards(effects, stdinOps) ==
    (IF childStdin = "ended" /\ Datas(effects, stdinOps) # <<>>
     THEN {"child.stdin"} ELSE {})
    \cup (IF logState \in {"ending", "closed"} /\ LogRecords(effects) # <<>>
          THEN {"logStream"} ELSE {})

\* child.kill(sig): the signal reaches a child that has not exited.
Kill(sig) ==
    childSignals' = IF child = "running" THEN Append(childSignals, sig)
                    ELSE childSignals

\* exit(status)
Exit(status) ==
    /\ proxy' = "terminated"
    /\ exitStatus' = [code |-> status, signal |-> NoSignal]

\* code ?? 0
ExitCodeOfZero(code) == IF code = NoCode THEN 0 ELSE code

\* code ?? 1
ExitCodeOf(code) == IF code = NoCode THEN 1 ELSE code

\* done() of the child's exit handler.  process.kill(process.pid, signal)
\* raises the signal at the proxy: one it listens to waits for its listener,
\* any other ends the process.
Done(code, signal) ==
    IF signal # NoSignal
    THEN /\ resignal' = signal
         /\ IF signal \in HandledSignals
            THEN /\ sigPending' = sigPending \cup {signal}
                 /\ UNCHANGED << proxy, exitStatus >>
            ELSE /\ proxy' = "terminated"
                 /\ exitStatus' = [code |-> NoCode, signal |-> signal]
                 /\ UNCHANGED sigPending
    ELSE /\ Exit(ExitCodeOf(code))
         /\ UNCHANGED << resignal, sigPending >>

Running == proxy = "alive" /\ child # "spawn_failed"

\* StdinData on a buffer that the two parsers share.
StdinDataSharesBuffer(n) ==
    /\ Running
    /\ stdinState = "open"
    /\ n \in 1..Len(clientIn)
    /\ \E r \in { createMessageParser(ClientToServer, TRUE, FALSE, clientBuf,
                                       SubSeq(clientIn, 1, n)) } :
          /\ clientBuf' = r.buffer
          /\ serverBuf' = r.buffer
          /\ toServer' = toServer \o Datas(r.effects, {"forward"})
          /\ LogWrites(r.effects)
          /\ hazards' = hazards \cup Hazards(r.effects, {"forward"})
    /\ clientIn' = SubSeq(clientIn, n + 1, Len(clientIn))
    /\ UNCHANGED << arg, results, variant, debug, clientSent, serverSent, serverIn,
                    toClient, stdinState, childStdin, child, childExit,
                    childSignals, sigPending, sigBudget, pendingDone, resignal,
                    proxy, exitStatus, stdoutState >>

\* StdinData writing every chunk to the child as it arrives.
StdinDataStreams(n) ==
    /\ Running
    /\ stdinState = "open"
    /\ n \in 1..Len(clientIn)
    /\ \E r \in { createMessageParser(ClientToServer, TRUE, FALSE, clientBuf,
                                       SubSeq(clientIn, 1, n)) } :
          /\ clientBuf' = r.buffer
          /\ toServer' = Append(toServer, SubSeq(clientIn, 1, n))
          /\ LogWrites(r.effects)
          /\ hazards' = hazards \cup Hazards(r.effects, {"forward"})
    /\ clientIn' = SubSeq(clientIn, n + 1, Len(clientIn))
    /\ UNCHANGED << arg, results, variant, debug, clientSent, serverSent, serverIn, serverBuf,
                    toClient, stdinState, childStdin, child, childExit,
                    childSignals, sigPending, sigBudget, pendingDone, resignal,
                    proxy, exitStatus, stdoutState >>

\* stdin.on("data", parseFromClient), on the first n bytes in flight.
StdinData(n) ==
    /\ Running
    /\ stdinState = "open"
    /\ n \in 1..Len(clientIn)
    /\ \E r \in { createMessageParser(ClientToServer, TRUE, FALSE, clientBuf,
                                       SubSeq(clientIn, 1, n)) } :
          /\ clientBuf' = r.buffer
          /\ toServer' = toServer \o Datas(r.effects, {"forward"})
          /\ LogWrites(r.effects)
          /\ hazards' = hazards \cup Hazards(r.effects, {"forward"})
    /\ clientIn' = SubSeq(clientIn, n + 1, Len(clientIn))
    /\ UNCHANGED << arg, results, variant, debug, clientSent, serverSent, serverIn, serverBuf,
                    toClient, stdinState, childStdin, child, childExit,
                    childSignals, sigPending, sigBudget, pendingDone, resignal,
                    proxy, exitStatus, stdoutState >>

\* ChildStdoutData with the normalizer as the server parser's transform.
ChildStdoutDataNormalizes(n) ==
    /\ Running
    /\ n \in 1..Len(serverIn)
    /\ \E r \in { createMessageParser(ServerToClient, TRUE, variant = "csharp",
                                       serverBuf, SubSeq(serverIn, 1, n)) } :
          /\ serverBuf' = r.buffer
          /\ toClient' = toClient \o Datas(r.effects, {"forward"})
          /\ toServer' = toServer \o Datas(r.effects, {"send"})
          /\ LogWrites(r.effects)
          /\ hazards' = hazards \cup Hazards(r.effects, {"send"})
    /\ serverIn' = SubSeq(serverIn, n + 1, Len(serverIn))
    /\ UNCHANGED << arg, results, variant, debug, clientSent, serverSent, clientIn, clientBuf,
                    stdinState, childStdin, child, childExit, childSignals,
                    sigPending, sigBudget, pendingDone, resignal, proxy,
                    exitStatus, stdoutState >>

\* child.stdout.on("data", parseFromServer), on the first n bytes in flight;
\* the child's output may still arrive after its 'exit' event.
ChildStdoutData(n) ==
    /\ Running
    /\ n \in 1..Len(serverIn)
    /\ \E r \in { createMessageParser(ServerToClient, FALSE, variant = "csharp",
                                       serverBuf, SubSeq(serverIn, 1, n)) } :
          /\ serverBuf' = r.buffer
          /\ toClient' = toClient \o Datas(r.effects, {"forward"})
          /\ toServer' = toServer \o Datas(r.effects, {"send"})
          /\ LogWrites(r.effects)
          /\ hazards' = hazards \cup Hazards(r.effects, {"send"})
    /\ serverIn' = SubSeq(serverIn, n + 1, Len(serverIn))
    /\ UNCHANGED << arg, results, variant, debug, clientSent, serverSent, clientIn, clientBuf,
                    stdinState, childStdin, child, childExit, childSignals,
                    sigPending, sigBudget, pendingDone, resignal, proxy,
                    exitStatus, stdoutState >>

\* stdin.on("end"): the client closed the stream, after its last byte.
StdinEnd ==
    /\ Running
    /\ stdinState = "open"
    /\ clientIn = <<>>
    /\ stdinState' = "ended"
    /\ childStdin' = "ended"
    /\ UNCHANGED << arg, results, variant, debug, clientSent, serverSent, clientIn, serverIn,
                    clientBuf, serverBuf, toServer, toClient, logFile, logState,
                    child, childExit, childSignals, sigPending, sigBudget,
                    pendingDone, resignal, proxy, exitStatus, stdoutState,
                    hazards >>

\* stdin.on("error", () => child.kill())
StdinError ==
    /\ Running
    /\ stdinState = "open"
    /\ stdinState' = "errored"
    /\ Kill("SIGTERM")
    /\ UNCHANGED << arg, results, variant, debug, clientSent, serverSent, clientIn, serverIn,
                    clientBuf, serverBuf, toServer, toClient, logFile, logState,
                    childStdin, child, childExit, sigPending, sigBudget,
                    pendingDone, resignal, proxy, exitStatus, stdoutState,
                    hazards >>

\* stdout.on("error", () => child.kill())
StdoutError ==
    /\ Running
    /\ stdoutState = "open"
    /\ stdoutState' = "errored"
    /\ Kill("SIGTERM")
    /\ UNCHANGED << arg, results, variant, debug, clientSent, serverSent, clientIn, serverIn,
                    clientBuf, serverBuf, toServer, toClient, logFile, logState,
                    stdinState, childStdin, child, childExit, sigPending,
                    sigBudget, pendingDone, resignal, proxy, exitStatus,
                    hazards >>

\* The environment sends the proxy a termination signal.
SignalArrives(sig) ==
    /\ Running
    /\ sigBudget > 0
    /\ sigBudget' = sigBudget - 1
    /\ sigPending' = sigPending \cup {sig}
    /\ UNCHANGED << arg, results, variant, debug, clientSent, serverSent, clientIn, serverIn,
                    clientBuf, serverBuf, toServer, toClient, logFile, logState,
                    stdinState, childStdin, child, childExit, childSignals,
                    pendingDone, resignal, proxy, exitStatus, stdoutState,
                    hazards >>

\* A listener that forwards the signal and ends the proxy at once.
OnSignalExits(sig) ==
    /\ Running
    /\ sig \in sigPending
    /\ sigPending' = sigPending \ {sig}
    /\ Kill(sig)
    /\ proxy' = "terminated"
    /\ exitStatus' = [code |-> NoCode, signal |-> sig]
    /\ UNCHANGED << arg, results, variant, debug, clientSent, serverSent, clientIn, serverIn,
                    clientBuf, serverBuf, toServer, toClient, logFile, logState,
                    stdinState, childStdin, child, childExit, sigBudget,
                    pendingDone, resignal, stdoutState, hazards >>

\* process.on(sig, () => child.kill(sig))
OnSignal(sig) ==
    /\ Running
    /\ sig \in sigPending
    /\ sigPending' = sigPending \ {sig}
    /\ Kill(sig)
    /\ UNCHANGED << arg, results, variant, debug, clientSent, serverSent, clientIn, serverIn,
                    clientBuf, serverBuf, toServer, toClient, logFile, logState,
                    stdinState, childStdin, child, childExit, sigBudget,
                    pendingDone, resignal, proxy, exitStatus, stdoutState,
                    hazards >>

\* child.on("exit", (code, signal) => ...): with a logStream, done waits for
\* logStream.end; without one it runs at once.
ChildExit(code, signal) ==
    /\ Running
    /\ child = "running"
    /\ child' = "exited"
    /\ childExit' = [code |-> code, signal |-> signal]
    /\ IF Logging
       THEN /\ logState' = "ending"
            /\ pendingDone' = TRUE
            /\ UNCHANGED << resignal, sigPending, proxy, exitStatus >>
       ELSE /\ Done(code, signal)
            /\ UNCHANGED << logState, pendingDone >>
    /\ UNCHANGED << arg, results, variant, debug, clientSent, serverSent, clientIn, serverIn,
                    clientBuf, serverBuf, toServer, toClient, logFile,
                    stdinState, childStdin, childSignals, sigBudget,
                    stdoutState, hazards >>

\* The callback of logStream.end(done): the log is flushed and closed.
LogFinish ==
    /\ Running
    /\ pendingDone
    /\ pendingDone' = FALSE
    /\ logState' = "closed"
    /\ Done(childExit.code, childExit.signal)
    /\ UNCHANGED << arg, results, variant, debug, clientSent, serverSent, clientIn, serverIn,
                    clientBuf, serverBuf, toServer, toClient, logFile,
                    stdinState, childStdin, child, childExit, childSignals,
                    sigBudget, stdoutState, hazards >>

\* child.on("error", ...): the spawn failed; the event precedes all I/O.
ChildError ==
    /\ proxy = "alive"
    /\ child = "spawn_failed"
    /\ Exit(1)
    /\ UNCHANGED << arg, results, variant, debug, clientSent, serverSent, clientIn, serverIn,
                    clientBuf, serverBuf, toServer, toClient, logFile, logState,
                    stdinState, childStdin, child, childExit, childSignals,
                    sigPending, sigBudget, pendingDone, resignal, stdoutState,
                    hazards >>

\* Node ends a process whose event loop has nothing left to wait for: the
\* child is gone with its output read, stdin is closed, no callback pends.
LoopDrain ==
    /\ proxy = "alive"
    /\ child = "exited"
    /\ stdinState # "open"
    /\ serverIn = <<>>
    /\ ~pendingDone
    /\ sigPending = {}
    /\ Exit(0)
    /\ UNCHANGED << arg, results, variant, debug, clientSent, serverSent, clientIn, serverIn,
                    clientBuf, serverBuf, toServer, toClient, logFile, logState,
                    stdinState, childStdin, child, childExit, childSignals,
                    sigPending, sigBudget, pendingDone, resignal, stdoutState,
                    hazards >>

\* The state after the module has run: the child is spawned (or its spawn
\* failed), the parsers are empty, the traffic is still to come.
Start(clientSessions, serverSessions) ==
    /\ variant \in {"csharp", "typescript"}
    /\ debug \in BOOLEAN
    /\ variant = "typescript" => ~debug
    /\ clientSent \in clientSessions
    /\ serverSent \in serverSessions
    /\ clientIn = Flatten(clientSent)
    /\ serverIn = Flatten(serverSent)
    /\ clientBuf = <<>>
    /\ serverBuf = <<>>
    /\ toServer = <<>>
    /\ toClient = <<>>
    /\ logFile = <<>>
    /\ logState = IF Logging THEN "open" ELSE "none"
    /\ stdinState = "open"
    /\ stdoutState = "open"
    /\ childStdin = "open"
    /\ childExit = [code |-> NoCode, signal |-> NoSignal]
    /\ childSignals = <<>>
    /\ sigPending = {}
    /\ pendingDone = FALSE
    /\ resignal = NoSignal
    /\ proxy = "alive"
    /\ exitStatus = [code |-> NoCode, signal |-> NoSignal]
    /\ hazards = {}

\* No function of the module is called by itself.
NoCall == arg = JNull /\ results = <<>>

\* A read delivers all the bytes in flight, or only the first ReadSize.
Reads(in) == {Len(in)} \cup {n \in {ReadSize} : n < Len(in)}

Init ==
    /\ Start(ClientSessions, ServerSessions)
    /\ NoCall
    /\ child \in {"running", "spawn_failed"}
    /\ sigBudget = MaxSignals

Next ==
    \/ \E n \in Reads(clientIn) : StdinData(n)
    \/ \E n \in Reads(serverIn) : ChildStdoutData(n)
    \/ StdinEnd
    \/ StdinError
    \/ StdoutError
    \/ \E sig \in HandledSignals : SignalArrives(sig)
    \/ \E sig \in HandledSignals : OnSignal(sig)
    \/ \E code \in ExitCodes : ChildExit(code, NoSignal)
    \/ \E signal \in Signals : ChildExit(NoCode, signal)
    \/ ChildExit(NoCode, NoSignal)
    \/ LogFinish
    \/ ChildError
    \/ LoopDrain

Spec == Init /\ [][Next]_vars

\* A child that was sent a signal dies of it.
KilledChildDies ==
    \E sig \in Signals :
        /\ \E i \in 1..Len(childSignals) : childSignals[i] = sig
        /\ ChildExit(NoCode, sig)

\* The callbacks the event loop runs when they are ready: a pending signal's
\* listener, the death of a killed child, the callback of the flushed log,
\* the failed spawn, and the loop's own end.
Callbacks ==
    \/ \E sig \in HandledSignals : OnSignal(sig)
    \/ KilledChildDies
    \/ LogFinish
    \/ ChildError
    \/ LoopDrain

\* StdinData or ChildStdoutData is enabled: bytes wait to be read.
BytesInFlight ==
    Running /\ ((stdinState = "open" /\ clientIn # <<>>) \/ serverIn # <<>>)

\* A step of StdinData or of ChildStdoutData.
BytesRead == clientIn' # clientIn \/ serverIn' # serverIn

\* The event loop never idles while a callback is ready or bytes wait: weak
\* fairness of the callbacks and, written out, of the two data handlers.
\* Whether the client ever closes stdin, and whether a signal ever arrives,
\* is up to the environment.
SpecFair ==
    /\ Spec
    /\ WF_vars(Callbacks)
    /\ ([]<>~BytesInFlight \/ []<><<BytesRead>>_vars)

\* The parsers alone: one direction carries a run of the script, delivered
\* in chunks of every size.
InitParse ==
    /\ \/ Start(Windows(ClientScript, MaxFrames), {<<>>})
       \/ Start({<<>>}, Windows(ServerScript, MaxFrames))
    /\ variant = "csharp" => debug
    /\ child = "running"
    /\ sigBudget = 0
    /\ NoCall

NextParse ==
    \/ \E n \in 1..Len(clientIn) : StdinData(n)
    \/ \E n \in 1..Len(serverIn) : ChildStdoutData(n)

SpecParse == InitParse /\ [][NextParse]_vars

-----------------------------------------------------------------------------
(* Properties of the parsers (SpecParse) *)

\* The bytes of a stream that were delivered so far.
Delivered(sent, in) == SubSeq(Flatten(sent), 1, Len(Flatten(sent)) - Len(in))

\* The parser of each direction, fed a byte sequence as one single chunk.
ClientWhole(bytes) ==
    createMessageParser(ClientToServer, TRUE, FALSE, <<>>, bytes)
ServerWhole(bytes) ==
    createMessageParser(ServerToClient, FALSE, variant = "csharp", <<>>, bytes)

\* The segment is a complete frame with a Content-Length header.
IsFrame(seg) ==
    LET sep == IndexOfSeparator(seg)
        match == HeaderMatch(AsciiDecode(subarray(seg, 0, sep)))
    IN  /\ sep # -1
        /\ match.found
        /\ Len(seg) = sep + 4 + ParseInt(match.digits)

BodyOf(seg) == subarray(seg, IndexOfSeparator(seg) + 4, Len(seg))

\* C1: however the bytes delivered so far were split into chunks, the buffer,
\* the forwarded output, the replies to the server and the logged (decoded)
\* messages of each direction are those of feeding the same bytes to an empty
\* parser as one single chunk.
C1_ChunkingIsInvisible ==
    LET c == ClientWhole(Delivered(clientSent, clientIn))
        s == ServerWhole(Delivered(serverSent, serverIn))
    IN  /\ clientBuf = c.buffer
        /\ serverBuf = s.buffer
        /\ toServer = Datas(c.effects, {"forward"}) \o Datas(s.effects, {"send"})
        /\ toClient = Datas(s.effects, {"forward"})
        /\ logFile = LogRecords(c.effects) \o LogRecords(s.effects)

\* A chunk ended one byte into the second frame, after the first frame was
\* forwarded, and the rest is still to come.
C1_Witness ==
    /\ Len(clientSent) = 2
    /\ IsFrame(clientSent[1])
    /\ Len(toServer) = 1
    /\ Len(clientBuf) = 1
    /\ clientIn # <<>>

\* The segments of a stream that were delivered completely.
RECURSIVE Complete(_, _)
Complete(sent, n) ==
    IF sent = <<>> \/ Len(Head(sent)) > n THEN <<>>
    ELSE << Head(sent) >> \o Complete(Tail(sent), n - Len(Head(sent)))

CompleteOf(sent, in) == Complete(sent, Len(Flatten(sent)) - Len(in))

\* The segment is a frame the csharp proxy answers itself.
IsIntercepted(seg) ==
    LET sep == IndexOfSeparator(seg)
        r == JsonParse(Utf8Decode(subarray(seg, sep + 4, Len(seg))))
    IN  /\ sep # -1
        /\ HeaderMatch(AsciiDecode(subarray(seg, 0, sep))).found
        /\ r.ok
        /\ r.v.t = "obj"
        /\ Intercepts(r.v)

\* {"jsonrpc":"2.0","id":<id>,"result":null} under its Content-Length header.
SynthesizedReply(id) ==
    LET body == <<"{", QUOTE, "j", "s", "o", "n", "r", "p", "c", QUOTE, ":", QUOTE, "2",
                  ".", "0", QUOTE, ",", QUOTE, "i", "d", QUOTE, ":">>
                \o JsonStringify(id)
                \o <<",", QUOTE, "r", "e", "s", "u", "l", "t", QUOTE, ":", "n", "u", "l",
                     "l", "}">>
    IN  FrameHeader(Len(body)) \o body

ReplyTo(seg) ==
    SynthesizedReply(GetMember(
        JsonParse(Utf8Decode(subarray(seg, IndexOfSeparator(seg) + 4, Len(seg)))).v,
        KeyId))

\* C2: in the csharp variant every server frame that was received completely
\* and whose message has an id and an intercepted method put exactly one
\* frame {jsonrpc:"2.0", id, result:null} on the child's stdin, in order
\* (next to what the client's frames put there), and nothing on stdout:
\* stdout holds what the other frames alone produce.
C2_InterceptReplies ==
    variant = "csharp" =>
        LET done == CompleteOf(serverSent, serverIn)
            hit == SelectSeq(done, IsIntercepted)
            rest == SelectSeq(done, LAMBDA seg : ~IsIntercepted(seg))
            client == ClientWhole(Delivered(clientSent, clientIn)).effects
        IN  /\ toServer = Datas(client, {"forward"})
                          \o [i \in 1..Len(hit) |-> ReplyTo(hit[i])]
            /\ toClient = Datas(ServerWhole(Flatten(rest)).effects, {"forward"})

\* An intercepted request and an ordinary response were both received.
C2_Witness ==
    /\ variant = "csharp"
    /\ serverIn = <<>>
    /\ Len(serverSent) = 2
    /\ IsIntercepted(serverSent[1])
    /\ ~IsIntercepted(serverSent[2])
    /\ Len(toServer) = 1
    /\ Len(toClient) = 1

\* The segment is a header block without Content-Length, with its separator.
IsMalformed(seg) ==
    LET sep == IndexOfSeparator(seg)
    IN  /\ sep # -1
        /\ Len(seg) = sep + 4
        /\ ~HeaderMatch(AsciiDecode(subarray(seg, 0, sep))).found

\* C7: once a header block without Content-Length was received with its
\* separator, exactly its bytes were forwarded, unchanged and unlogged, between
\* what the bytes before it and the bytes after it produce on their own, and
\* the buffer is the one the bytes after it leave.
C7_MalformedHeaderSkipped ==
    \A i \in 1..Len(CompleteOf(clientSent, clientIn)) :
        IsMalformed(clientSent[i]) =>
            LET before == ClientWhole(Flatten(SubSeq(clientSent, 1, i - 1)))
                all == Delivered(clientSent, clientIn)
                start == Len(Flatten(SubSeq(clientSent, 1, i)))
                after == ClientWhole(SubSeq(all, start + 1, Len(all)))
            IN  /\ toServer = Datas(before.effects, {"forward"})
                              \o << clientSent[i] >>
                              \o Datas(after.effects, {"forward"})
                /\ logFile = LogRecords(before.effects) \o LogRecords(after.effects)
                /\ clientBuf = after.buffer

\* A malformed header block was followed by a frame, and both were forwarded.
C7_Witness ==
    /\ Len(clientSent) = 2
    /\ IsMalformed(clientSent[1])
    /\ clientIn = <<>>
    /\ clientBuf = <<>>
    /\ Len(toServer) = 2
    /\ toServer[1] = clientSent[1]
    /\ Len(logFile) = 1

\* The bytes are well-formed UTF-8: decoding replaces nothing.
ValidUtf8(bytes) == Utf8Encode(Utf8Decode(bytes)) = bytes

ValidUtf8Json(bytes) == ValidUtf8(bytes) /\ JsonParse(Utf8Decode(bytes)).ok

\* C8: a first frame whose body is not valid UTF-8 JSON is forwarded as it
\* was received and logged as {_raw: <body text>}.
C8_UnparseableForwardedRaw ==
    ( /\ CompleteOf(clientSent, clientIn) # <<>>
      /\ IsFrame(clientSent[1])
      /\ ~ValidUtf8Json(BodyOf(clientSent[1])) )
    => /\ toServer # <<>>
       /\ toServer[1] = clientSent[1]
       /\ logFile # <<>>
       /\ logFile[1] =
             [direction |-> ClientToServer,
              message |-> JsonStringify(JObj(<< Member(KeyRaw,
                              JStr(Utf8Decode(BodyOf(clientSent[1])))) >>))]

\* The effects each segment has on a parser of its own, in order.
RECURSIVE EachAlone(_, _)
EachAlone(Whole(_), segs) ==
    IF segs = <<>> THEN <<>>
    ELSE Whole(Head(segs)).effects \o EachAlone(Whole, Tail(segs))

\* The buffer holds no header block with its separator, or a frame whose
\* body is still short.
Drained(buffer) ==
    LET sep == IndexOfSeparator(buffer)
        match == HeaderMatch(AsciiDecode(subarray(buffer, 0, sep)))
    IN  sep # -1 => match.found /\ Len(buffer) < sep + 4 + ParseInt(match.digits)

\* C10: the outputs of a direction are those of its completely received
\* segments, one after the other in arrival order, and after every chunk the
\* buffer holds no complete frame: none waits for a later chunk.
C10_FifoAndDrained ==
    LET c == EachAlone(ClientWhole, CompleteOf(clientSent, clientIn))
        s == EachAlone(ServerWhole, CompleteOf(serverSent, serverIn))
    IN  /\ toServer = Datas(c, {"forward"}) \o Datas(s, {"send"})
        /\ toClient = Datas(s, {"forward"})
        /\ logFile = LogRecords(c) \o LogRecords(s)
        /\ Drained(clientBuf)
        /\ Drained(serverBuf)

\* Two frames were received and forwarded in their order, none left waiting.
C10_Witness ==
    /\ Len(clientSent) = 2
    /\ IsFrame(clientSent[1])
    /\ IsFrame(clientSent[2])
    /\ clientSent[1] # clientSent[2]
    /\ clientIn = <<>>
    /\ clientBuf = <<>>
    /\ Len(toServer) = 2

-----------------------------------------------------------------------------
(* Properties of the proxy's life cycle (Spec, SpecFair) *)

\* C3: the listener of SIGTERM or SIGINT that runs while the child runs sends
\* the child that same signal and leaves the proxy alive, and the proxy is
\* never terminated while the child is still running.
C3_SignalForwarded ==
    /\ [](proxy = "terminated" => child # "running")
    /\ [][\A sig \in HandledSignals :
            (sig \in sigPending /\ sig \notin sigPending' /\ child = "running")
            => (childSignals' = Append(childSignals, sig) /\ proxy' = "alive")]_vars

\* SIGINT reached the child, which still runs under a living proxy.
C3_Witness ==
    /\ childSignals = << "SIGINT" >>
    /\ child = "running"
    /\ proxy = "alive"
    /\ sigPending = {}

\* C4: once the child was killed by a signal and the proxy has raised that
\* signal at itself and the signal was delivered, the proxy is terminated
\* with that signal as the cause of its death.
C4_DiesOfChildSignal ==
    (resignal # NoSignal /\ resignal \notin sigPending)
    => (proxy = "terminated" /\ exitStatus.signal = resignal)

\* C5: an error on the proxy's stdin or stdout leads to the termination of
\* the proxy.
C5_StreamErrorTerminates ==
    (stdinState = "errored" \/ stdoutState = "errored") ~> (proxy = "terminated")

\* C6: a proxy whose spawn failed terminates with status 1; a proxy whose
\* child exited without a signal terminates with the child's exit code, or 1
\* when there is none, and then the log, if there is one, is flushed and
\* closed.
C6_ExitStatus ==
    proxy = "terminated" =>
        /\ child = "spawn_failed" => exitStatus = [code |-> 1, signal |-> NoSignal]
        /\ (child = "exited" /\ childExit.signal = NoSignal) =>
              /\ exitStatus.signal = NoSignal
              /\ exitStatus.code = (IF childExit.code = NoCode THEN 1 ELSE childExit.code)
              /\ Logging => logState = "closed"

\* The child exited with code 2 and the proxy, its log closed, did the same.
C6_Witness ==
    /\ proxy = "terminated"
    /\ child = "exited"
    /\ childExit = [code |-> 2, signal |-> NoSignal]
    /\ exitStatus.code = 2
    /\ logState = "closed"

\* C9: when the client's stream has ended, no byte the proxy received from
\* it is left in the buffer, unforwarded.
C9_NothingLeftAtEnd ==
    stdinState = "ended" => clientBuf = <<>>

-----------------------------------------------------------------------------
(* Properties of the emitted frames (SpecParse) *)

\* The buffer starts with a header block that names a Content-Length.
HasContentLength(data) ==
    LET sep == IndexOfSeparator(data)
    IN  sep # -1 /\ HeaderMatch(AsciiDecode(subarray(data, 0, sep))).found

\* C11: every buffer the proxy wrote to the child's stdin or to its stdout
\* under a Content-Length header (re-encoded, raw or synthesized) carries
\* after the separator exactly as many bytes as the header says; so does the
\* frame of a body the transform changed.
C11_ContentLengthExact ==
    /\ \A i \in 1..Len(toServer) : HasContentLength(toServer[i]) => IsFrame(toServer[i])
    /\ \A i \in 1..Len(toClient) : HasContentLength(toClient[i]) => IsFrame(toClient[i])

\* A frame whose body the normalizer shortened was forwarded under a header
\* that says the new length.
C11_Witness ==
    /\ Len(clientSent) = 1
    /\ IsFrame(clientSent[1])
    /\ clientIn = <<>>
    /\ Len(toServer) = 1
    /\ IsFrame(toServer[1])
    /\ Len(BodyOf(toServer[1])) < Len(BodyOf(clientSent[1]))

-----------------------------------------------------------------------------
(* The URI normalizer called by itself (SpecUri) *)

MaxPath == 3
MaxCalls == 2

\* The strings of at most n characters over an alphabet.
RECURSIVE Strings(_, _)
Strings(alphabet, n) ==
    IF n = 0 THEN { <<>> }
    ELSE Strings(alphabet, n - 1)
         \cup { Append(w, c) : w \in Strings(alphabet, n - 1), c \in alphabet }

\* file://C:\foo\bar\
WindowsUri ==
    FilePrefix \o <<"C", ":", BSL, "f", "o", "o", BSL, "b", "a", "r", BSL>>

\* file:///a/b
UnixUri == FilePrefix \o <<"/", "a", "/", "b">>

\* file:///
RootUri == FilePrefix \o <<"/">>

\* Strings that are file URIs, and strings that are not.
UriStrings ==
    { FilePrefix \o w : w \in Strings({"/", BSL, "a"}, MaxPath) }
    \cup { WindowsUri, UnixUri }
    \cup { <<>>, <<"a", "/">>, <<"f", "i", "l", "e", ":", "/">>,
           <<"h", "t", "t", "p", ":", "/", "/", "a", "/">> }

\* The values normalizeUris is called on: strings, the other scalars, and
\* containers of them.
UriArgs ==
    { JStr(u) : u \in UriStrings }
    \cup { JNull, JBool(TRUE), JNum(1), JInfinity }
    \cup { JArr(<< JStr(u), JNum(1) >>) : u \in { WindowsUri, UnixUri, <<"a", "/">> } }
    \cup { JObj(<< Member(<<"u">>, JStr(WindowsUri)),
                   Member(ProtoKey, JObj(<< Member(<<"v">>, JStr(WindowsUri)) >>)),
                   Member(<<"w">>, JArr(<< JObj(<< Member(<<"x">>, JStr(RootUri)) >>) >>)) >>) }

\* The value the next call is made on: the last result, or arg.
Current == IF results = <<>> THEN arg ELSE results[Len(results)].value

Returned(fn, value) == [fn |-> fn, value |-> value]

Others ==
    << variant, debug, clientSent, serverSent, clientIn, serverIn, clientBuf,
       serverBuf, toServer, toClient, logFile, logState, stdinState, childStdin,
       child, childExit, childSignals, sigPending, sigBudget, pendingDone,
       resignal, proxy, exitStatus, stdoutState, hazards >>

\* normalizeFileUri(uri), on a string.
CallNormalizeFileUri ==
    /\ Len(results) < MaxCalls
    /\ Current.t = "str"
    /\ results' = Append(results, Returned("normalizeFileUri",
                                           JStr(normalizeFileUri(Current.s))))
    /\ UNCHANGED << arg, Others >>

\* normalizeUris(obj)
CallNormalizeUris ==
    /\ Len(results) < MaxCalls
    /\ results' = Append(results, Returned("normalizeUris", normalizeUris(Current)))
    /\ UNCHANGED << arg, Others >>

InitUri ==
    /\ Start({<<>>}, {<<>>})
    /\ variant = "csharp"
    /\ ~debug
    /\ child = "running"
    /\ sigBudget = 0
    /\ arg \in UriArgs
    /\ results = <<>>

NextUri == CallNormalizeFileUri \/ CallNormalizeUris

SpecUri == InitUri /\ [][NextUri]_vars

\* C12: a second call of normalizeFileUri, or of normalizeUris, on what the
\* first call of the same function returned, returns that same value.
C12_NormalizeIdempotent ==
    \A i \in 1..(Len(results) - 1) :
        results[i + 1].fn = results[i].fn => results[i + 1].value = results[i].value

\* normalizeFileUri was called twice in a row on a URI that the first call
\* changed.
C12_Witness ==
    /\ arg = JStr(WindowsUri)
    /\ Len(results) = 2
    /\ results[1].fn = "normalizeFileUri"
    /\ results[2].fn = "normalizeFileUri"
    /\ results[1].value # arg

\* The path of a file URI as it should come out: without "file://" and at
\* most one further slash, every backslash a slash, and, when longer than
\* one character, cut after its last character that is no slash.
ExpectedPath(uri) ==
    LET rest == SubSeq(uri, Len(FilePrefix) + 1, Len(uri))
        cut == IF rest # <<>> /\ rest[1] = "/" THEN Tail(rest) ELSE rest
        fwd == [i \in 1..Len(cut) |-> IF cut[i] = BSL THEN "/" ELSE cut[i]]
        keep == {0} \cup {k \in 1..Len(fwd) : fwd[k] # "/"}
        last == CHOOSE k \in keep : \A j \in keep : j <= k
    IN  IF Len(fwd) > 1 THEN SubSeq(fwd, 1, last) ELSE fwd

\* What a call on a scalar should return.
ExpectedScalar(x) ==
    IF x.t = "str" /\ StartsWith(x.s, FilePrefix)
    THEN JStr(<<"f", "i", "l", "e", ":", "/", "/", "/">> \o ExpectedPath(x.s))
    ELSE x

\* C13: called on a string that starts with file://, the normalizer returns
\* file:/// and the expected path; any other string and any scalar that is no
\* string it returns unchanged.  file:/// stays file:///, file:///a/b stays
\* file:///a/b, and file://C:\foo\bar\ becomes file:///C:/foo/bar.
C13_NormalizeFileUri ==
    /\ \A i \in 1..Len(results) :
          LET x == IF i = 1 THEN arg ELSE results[i - 1].value
          IN  x.t \notin {"arr", "obj"} => results[i].value = ExpectedScalar(x)
    /\ results # <<>> =>
          /\ arg = JStr(RootUri) => results[1].value = JStr(RootUri)
          /\ arg = JStr(UnixUri) => results[1].value = JStr(UnixUri)
          /\ arg = JStr(WindowsUri) =>
                results[1].value = JStr(<<"f", "i", "l", "e", ":", "/", "/", "/", "C",
                                          ":", "/", "f", "o", "o", "/", "b", "a", "r">>)

\* normalizeFileUri returned file:///C:/foo/bar for file://C:\foo\bar\.
C13_Witness ==
    /\ arg = JStr(WindowsUri)
    /\ Len(results) = 1
    /\ results[1].fn = "normalizeFileUri"
    /\ Len(results[1].value.s) = 18

-----------------------------------------------------------------------------
(* The codec called by itself (SpecRoundTrip) *)

\* Characters of the strings in the messages: plain, escaped when
\* serialized, and three bytes long when encoded.
MessageChars == {"a", QUOTE, BSL, LF, REPL, "/"}

MessageScalars ==
    { JNull, JBool(TRUE), JBool(FALSE), JNum(0), JNum(7), JNum(10) }
    \cup { JStr(w) : w \in Strings(MessageChars, 1) }
    \cup { JStr(WindowsUri) }

\* Values of one level of nesting.
MessageValues ==
    MessageScalars
    \cup { JArr(<< x >>) : x \in MessageScalars }
    \cup { JArr(<< x, JNum(1) >>) : x \in MessageScalars }
    \cup { JObj(<< Member(KeyId, x) >>) : x \in MessageScalars }
    \cup { JObj(<< Member(KeyId, JNum(1)), Member(KeyMethod, x) >>) : x \in MessageScalars }

\* 1e309, [2e308] and {"id":1e400}: numbers above the range of a double.
HugeTexts ==
    { <<"1", "e", "3", "0", "9">>,
      <<"[", "2", "e", "3", "0", "8", "]">>,
      <<"{", QUOTE, "i", "d", QUOTE, ":", "1", "e", "4", "0", "0", "}">> }

\* The bodies a peer may send, and the messages JSON.parse decodes from them.
MessageTexts == { JsonStringify(v) : v \in MessageValues } \cup HugeTexts

Messages == { JsonParse(t).v : t \in { u \in MessageTexts : JsonParse(u).ok } }

\* Buffer.concat([frame, newBody]) of the message: the frame the proxy
\* forwards for it.
CallEncode ==
    /\ results = <<>>
    /\ results' = << Returned("encode", EncodeFrame(arg)) >>
    /\ UNCHANGED << arg, Others >>

\* What a parser without transform or intercept makes of a frame.
Decoded(frame, r) ==
    [buffer |-> r.buffer,
     logged |-> Datas(r.effects, {"log"}),
     forwarded |-> Datas(r.effects, {"forward"}),
     parsed |-> JsonParse(Utf8Decode(subarray(frame, IndexOfSeparator(frame) + 4,
                                              Len(frame))))]

\* The frame fed in one chunk to a parser whose buffer is empty.
CallDecode ==
    /\ Len(results) = 1
    /\ \E r \in { createMessageParser(ServerToClient, FALSE, FALSE, <<>>,
                                       results[1].value) } :
          results' = Append(results, Returned("decode", Decoded(results[1].value, r)))
    /\ UNCHANGED << arg, Others >>

InitRoundTrip ==
    /\ Start({<<>>}, {<<>>})
    /\ variant = "csharp"
    /\ ~debug
    /\ child = "running"
    /\ sigBudget = 0
    /\ arg \in Messages
    /\ results = <<>>

NextRoundTrip == CallEncode \/ CallDecode

SpecRoundTrip == InitRoundTrip /\ [][NextRoundTrip]_vars

\* C14: the frame that encodes a decoded message, fed to a parser with an
\* empty buffer, yields exactly one message, equal to the one encoded, and
\* leaves the buffer empty.
C14_RoundTrip ==
    Len(results) = 2 =>
        /\ results[2].value.buffer = <<>>
        /\ Len(results[2].value.logged) = 1
        /\ results[2].value.parsed.ok
        /\ results[2].value.parsed.v = arg

-----------------------------------------------------------------------------
(* Properties of forwarding and logging (SpecParse) *)

\* The segment is forwarded as one unit: a frame or a malformed header block.
IsUnit(seg) == IsFrame(seg) \/ IsMalformed(seg)

\* The proxy's server parser answers the segment itself.
Suppressed(seg) == variant = "csharp" /\ IsIntercepted(seg)

\* The forward of a segment carries it as received, or, when its body
\* decodes, the decoded message serialized anew; normalized tells whether
\* the direction's transform was applied to the message first.
Carries(data, seg, normalized) ==
    \/ data = seg
    \/ /\ IsFrame(seg)
       /\ JsonParse(Utf8Decode(BodyOf(seg))).ok
       /\ data = EncodeFrame(IF normalized
                             THEN normalizeUris(JsonParse(Utf8Decode(BodyOf(seg))).v)
                             ELSE JsonParse(Utf8Decode(BodyOf(seg))).v)

\* C15: every unit received from the client was forwarded to the child
\* exactly once; every unit received from the server that the interception
\* policy does not answer was forwarded to the client exactly once, its
\* message not normalized, and wrote nothing to the child: the child got
\* one write per client unit and one per intercepted request.
C15_OnlyInterceptionSuppresses ==
    LET cunits == SelectSeq(CompleteOf(clientSent, clientIn), IsUnit)
        sunits == SelectSeq(CompleteOf(serverSent, serverIn), IsUnit)
        passed == SelectSeq(sunits, LAMBDA seg : ~Suppressed(seg))
        hit == SelectSeq(sunits, Suppressed)
    IN  /\ Len(toServer) = Len(cunits) + Len(hit)
        /\ \A i \in 1..Len(cunits) : Carries(toServer[i], cunits[i], TRUE)
        /\ Len(toClient) = Len(passed)
        /\ \A i \in 1..Len(passed) : Carries(toClient[i], passed[i], FALSE)

\* After an intercepted request the server sent a message with a file URI
\* that the normalizer would change: it reached the client as it was sent.
C15_Witness ==
    /\ variant = "csharp"
    /\ serverIn = <<>>
    /\ Len(serverSent) = 2
    /\ IsIntercepted(serverSent[1])
    /\ serverSent[2] = Wire(BodyUri)
    /\ toClient = << Wire(BodyUri) >>
    /\ Len(toServer) = 1

\* The log records that carry a direction's tag.
Tagged(direction) == SelectSeq(logFile, LAMBDA rec : rec.direction = direction)

\* C16: with logging on, every complete frame of a direction has exactly one
\* log record under that direction's tag: the decoded message or the {_raw}
\* fallback, never both.
C16_OneRecordPerFrame ==
    logState = "open" =>
        /\ Len(Tagged(ClientToServer))
              = Len(SelectSeq(CompleteOf(clientSent, clientIn), IsFrame))
        /\ Len(Tagged(ServerToClient))
              = Len(SelectSeq(CompleteOf(serverSent, serverIn), IsFrame))

-----------------------------------------------------------------------------
(* Both directions at once (SpecDuplex) *)

\* The client sends a frame while the child sends a request that the csharp
\* variant answers itself; the chunks of the two streams arrive in every size
\* and every order.
InitDuplex ==
    /\ Start({ << Wire(BodyEmpty) >> }, { << Wire(BodyRegister) >> })
    /\ variant = "csharp" => debug
    /\ child = "running"
    /\ sigBudget = 0
    /\ NoCall

SpecDuplex == InitDuplex /\ [][NextParse]_vars

\* A buffer written to the child's stdin is a reply of the proxy's own.
IsReply(data) ==
    \E i \in 1..Len(serverSent) :
        IsIntercepted(serverSent[i]) /\ data = ReplyTo(serverSent[i])

\* C17: a chunk of one direction leaves the other direction's buffer as it
\* was, and what each direction has buffered, forwarded, answered and logged
\* is what its own delivered bytes produce on a parser of their own, however
\* the other direction's chunks fell in between.
C17_DirectionsIndependent ==
    /\ [][/\ clientIn' # clientIn => serverBuf' = serverBuf
          /\ serverIn' # serverIn => clientBuf' = clientBuf]_vars
    /\ [](LET c == ClientWhole(Delivered(clientSent, clientIn))
              s == ServerWhole(Delivered(serverSent, serverIn))
          IN  /\ clientBuf = c.buffer
              /\ serverBuf = s.buffer
              /\ SelectSeq(toServer, LAMBDA d : ~IsReply(d)) = Datas(c.effects, {"forward"})
              /\ SelectSeq(toServer, IsReply) = Datas(s.effects, {"send"})
              /\ toClient = Datas(s.effects, {"forward"})
              /\ Tagged(ClientToServer) = LogRecords(c.effects)
              /\ SelectSeq(logFile, LAMBDA rec : rec.direction # ClientToServer)
                    = LogRecords(s.effects))

\* Both parsers hold the start of a frame, and both streams have more to
\* deliver.
C17_Witness ==
    /\ clientBuf # <<>>
    /\ serverBuf # <<>>
    /\ clientIn # <<>>
    /\ serverIn # <<>>

\* C20: every buffer written to the child's stdin is one whole unit, and the
\* child, reading the writes as one stream, finds exactly these units.
C20_WritesAreWholeUnits ==
    /\ \A i \in 1..Len(toServer) : IsUnit(toServer[i])
    /\ \E r \in { createMessageParser(ServerToClient, FALSE, FALSE, <<>>,
                                       Flatten(toServer)) } :
          /\ r.buffer = <<>>
          /\ Len(Datas(r.effects, {"forward"})) = Len(toServer)

\* The reply was written while the client's frame was only partly received;
\* the rest of the frame is still to come.
C20_Witness ==
    /\ variant = "csharp"
    /\ Len(toServer) = 1
    /\ IsReply(toServer[1])
    /\ clientBuf # <<>>
    /\ clientIn # <<>>

-----------------------------------------------------------------------------
(* Writes on streams that were ended (Spec) *)

\* C18: once child.stdin.end() was called, no step writes to the child's
\* stdin.
C18_NoWriteAfterStdinEnd ==
    [][childStdin = "ended" => toServer' = toServer]_vars

\* C19: no log record is written once logStream.end() was called.
C19_NoLogAfterClose == "logStream" \notin hazards

====
